---- MODULE Spec2Model ----
(***************************************************************************)
(* Model of server/src/handlers/chunk_handler.rs: the chunk ingest,        *)
(* update and delete handlers over the metadata store (chunk_metadata and  *)
(* chunk_collisions tables) and the vector index (qdrant points).          *)
(*                                                                         *)
(* A handler is a chain of awaited calls.  Each awaited call together with *)
(* the synchronous code that follows it is one step (CreateStep,           *)
(* DeleteStep, UpdateStep).  Under Spec requests run one after the other   *)
(* and a handler is one action: its steps run to the response (Run).       *)
(* Under SpecConc two requests are in flight and steps interleave.         *)
(*                                                                         *)
(* Option<T> is a sequence of length at most one: None is <<>>, Some(x) is *)
(* <<x>>.                                                                  *)
(***************************************************************************)
EXTENDS Integers, Sequences, FiniteSets, TLC

\* Number of chunk ids generated in one behaviour: under Spec, under SpecConc.
MaxChunks == 3

MaxConcChunks == 2

\* The requests of one behaviour depart from the plain request of their handler
\* (and from runs in which every call succeeds) in at most this many inputs in
\* total: under Spec, under SpecConc.
MaxDeviations == 2

MaxConcDeviations == 1

\* Under Spec, the chunk ids generated and the deviations of one behaviour are at
\* most this many together.
MaxWork == 5

\* the longest query string given to parse_query, in characters
MaxQueryLen == 6

None == <<>>

Some(x) == <<x>>

unwrap_or(o, d) == IF o = None THEN d ELSE o[1]

is_some(o) == o # None

Abs(n) == IF n < 0 THEN -n ELSE n

\* ------------------------------------------------------------------ inputs

Users == {"u1", "u2"}

Htmls == {"a", "<p>a</p>", "b"}

TrackingIds == {"", "t1"}

TimeStamps == {"2024-01-01T00:00:00", "not a date"}

\* innerText of the html, as the converter script returns it
convert_html(html) == IF html = "<p>a</p>" THEN "a" ELSE html

\* the embedding model: text to vector (one coordinate is enough to order
\* similarities)
create_embedding(content) == IF content = "a" THEN 0 ELSE 2

\* similarity of two vectors in hundredths, higher is more similar
Score(v, w) == 100 - 3 * Abs(v - w)

\* ts.parse::<DateTimeUtc>(): Some(parsed) or None when malformed
parse_time_stamp(ts) == IF ts = "2024-01-01T00:00:00" THEN Some(20240101) ELSE None

\* ------------------------------------------------------------------ stores
\* meta       : chunk id -> chunk_metadata row
\* collisions : the chunk_collisions rows in insertion order
\* qdrant     : point id -> point
\* chunk_seq, point_seq : number of chunk ids / point ids generated so far
\* procs      : the requests in flight under SpecConc
\* last       : the last completed request and its response

\* deviations : inputs so far that were not the plain ones (see MaxDeviations)

VARIABLES meta, collisions, qdrant, bookmarks, chunk_seq, point_seq, procs, last, deviations

vars == <<meta, collisions, qdrant, bookmarks, chunk_seq, point_seq, procs, last, deviations>>

Stores == [meta |-> meta, collisions |-> collisions, qdrant |-> qdrant,
           bookmarks |-> bookmarks, chunk_seq |-> chunk_seq, point_seq |-> point_seq]

EmptyFn == [x \in {} |-> None]

\* f with key k set to v (k may be new)
Put(f, k, v) == [x \in DOMAIN f \cup {k} |-> IF x = k THEN v ELSE f[x]]

\* f without key k
Drop(f, k) == [x \in DOMAIN f \ {k} |-> f[x]]

SelectSeqBy(s, keep) ==
    LET F[i \in 0..Len(s)] ==
            IF i = 0 THEN <<>>
            ELSE IF s[i] \in keep THEN Append(F[i - 1], s[i]) ELSE F[i - 1]
    IN F[Len(s)]

\* ------------------------------------------------- metadata store operators

\* ChunkMetadata::from_details_with_id: the row of a chunk
from_details_with_id(id, content, chunk_html, link, tag_set, author_id, qdrant_point_id, metadata, tracking_id, time_stamp, weight) ==
    [id |-> id, content |-> content, chunk_html |-> chunk_html, link |-> link,
     tag_set |-> tag_set, author_id |-> author_id,
     qdrant_point_id |-> qdrant_point_id, metadata |-> metadata,
     tracking_id |-> tracking_id, time_stamp |-> time_stamp, weight |-> weight]

\* ChunkMetadata::from_details: a row under a newly generated chunk id
from_details(S, content, chunk_html, link, tag_set, author_id, qdrant_point_id, metadata, tracking_id, time_stamp, weight) ==
    from_details_with_id(S.chunk_seq + 1, content, chunk_html, link, tag_set, author_id,
                         qdrant_point_id, metadata, tracking_id, time_stamp, weight)

get_row_count_for_dataset_id_query(S) == Cardinality(DOMAIN S.meta)

\* the rows whose qdrant_point_id is one of point_ids
get_metadata_from_point_ids(S, point_ids) ==
    {S.meta[c] : c \in {d \in DOMAIN S.meta :
                          /\ is_some(S.meta[d].qdrant_point_id)
                          /\ S.meta[d].qdrant_point_id[1] \in point_ids}}

get_metadata_from_id_query(S, chunk_id) ==
    IF chunk_id \in DOMAIN S.meta THEN Some(S.meta[chunk_id]) ELSE None

get_metadata_from_tracking_id_query(S, tracking_id) ==
    LET hit == {c \in DOMAIN S.meta : S.meta[c].tracking_id = Some(tracking_id)}
    IN IF hit = {} THEN None ELSE Some(S.meta[CHOOSE c \in hit : TRUE])

\* no unique index on tracking_id
TrackingIdFree(S, row) == FALSE

\* the unique index on tracking_id: another row already holds it
TrackingIdTaken(S, row) ==
    /\ is_some(row.tracking_id)
    /\ \E c \in DOMAIN S.meta \ {row.id} : S.meta[c].tracking_id = row.tracking_id

insert_chunk_metadata_query(S, row) ==
    [S EXCEPT !.meta = Put(S.meta, row.id, row)]

\* the row, and its chunk_collisions row naming the point it collided with
insert_duplicate_chunk_metadata_query(S, row, collision_qdrant_id) ==
    [S EXCEPT !.meta = Put(S.meta, row.id, row),
              !.collisions = Append(S.collisions,
                  [chunk_id |-> row.id, collision_qdrant_id |-> collision_qdrant_id])]

update_chunk_metadata_query(S, row) ==
    [S EXCEPT !.meta = Put(S.meta, row.id, row)]

\* the point the chunk is searchable under: its own, or the one it collided with
get_qdrant_id_from_chunk_id_query(S, chunk_id) ==
    LET own == IF chunk_id \in DOMAIN S.meta THEN S.meta[chunk_id].qdrant_point_id ELSE None
        idx == {i \in 1..Len(S.collisions) : S.collisions[i].chunk_id = chunk_id}
    IN IF is_some(own) THEN own
       ELSE IF idx = {} THEN None
       ELSE Some(S.collisions[CHOOSE i \in idx : TRUE].collision_qdrant_id)

\* the bookmark of the chunk in the collection
create_chunk_bookmark_query(S, collection_id, chunk_id) ==
    [S EXCEPT !.bookmarks = @ \cup {[collection_id |-> collection_id, chunk_id |-> chunk_id]}]

\* --------------------------------------------------- vector index operators

\* the best-scoring points for a vector, over the whole dataset
BestPoints(S, vector) ==
    {p \in DOMAIN S.qdrant :
        \A q \in DOMAIN S.qdrant :
            Score(vector, S.qdrant[p].vector) >= Score(vector, S.qdrant[q].vector)}

\* the results the index may return: the nil point with score 0 when it is empty
global_unfiltered_top_match_query(S, vector) ==
    IF DOMAIN S.qdrant = {} THEN {[point_id |-> 0, score |-> 0]}
    ELSE {[point_id |-> p, score |-> Score(vector, S.qdrant[p].vector)] :
              p \in BestPoints(S, vector)}

create_new_qdrant_point_query(S, point_id, vector, author_id) ==
    [S EXCEPT !.qdrant = Put(S.qdrant, point_id,
                             [vector |-> vector, authors |-> {author_id}])]

\* adds the author to the point's payload; with metadata, also replaces the
\* payload and (when given) the vector.  Without metadata the vector stays.
update_qdrant_point_query(S, metadata, point_id, author_id, updated_vector) ==
    LET old == S.qdrant[point_id]
        vec == IF is_some(metadata) /\ is_some(updated_vector)
               THEN updated_vector[1] ELSE old.vector
    IN [S EXCEPT !.qdrant = Put(S.qdrant, point_id,
                                [vector |-> vec, authors |-> old.authors \cup {author_id}])]

delete_qdrant_point_id_query(S, point_id) ==
    [S EXCEPT !.qdrant = Drop(S.qdrant, point_id)]

\* ------------------------------------------------------- request-local state
\* op, req : the handler and its request;  failAt : the call that fails (or at
\* which the request is cancelled), "none" when every call succeeds;
\* pc : the call awaited next;  before : what the stores held when the request
\* arrived;  io : the collaborator calls issued so far, in order;
\* resp : the response.

NewRequest(op, req, failAt, S) ==
    [op |-> op, pc |-> "start", req |-> req, failAt |-> failAt, before |-> S,
     io |-> <<>>,
     content |-> None, embedding_vector |-> None, first_semantic_result |-> None,
     collision |-> None, chunk_metadata |-> None, found |-> None,
     qdrant_point_id |-> None, promoted |-> None, new_point |-> None,
     duplicate |-> FALSE,
     resp |-> None]

Respond(L, status, message) ==
    [L EXCEPT !.pc = "done", !.resp = Some([status |-> status, message |-> message])]

\* the call at L.pc succeeds
Succeeds(L) == L.pc # L.failAt

\* the call at L.pc has been issued
Called(L) == [L EXCEPT !.io = Append(L.io, L.pc)]

Goto(L, pc) == [L EXCEPT !.pc = pc]

\* ------------------------------------------------------------- create_chunk

StripePlanDefault == [chunk_count |-> 1000]

\* the plan's limit never compared
over_plan_never(chunk_count, plan) == FALSE

\* chunk_count >= plan.unwrap_or(StripePlan::default()).chunk_count
over_plan(chunk_count, plan) == chunk_count >= unwrap_or(plan, StripePlanDefault).chunk_count

\* tracking_id.filter(|t| !t.is_empty())
filter_tracking_id(tracking_id) == IF tracking_id = Some("") THEN None ELSE tracking_id

\* a default threshold of 0.99
duplicate_distance_threshold_99(server_configuration) == unwrap_or(server_configuration, 99)

\* dataset_config.DUPLICATE_DISTANCE_THRESHOLD.unwrap_or(0.95)
duplicate_distance_threshold(server_configuration) == unwrap_or(server_configuration, 95)

\* first_semantic_result.score >= duplicate_distance_threshold
is_collision(score, threshold) == score >= threshold

\* time_stamp.map(parse).transpose(): [ok, value]; not ok when malformed
transpose_time_stamp(time_stamp) ==
    IF time_stamp = None THEN [ok |-> TRUE, value |-> None]
    ELSE [ok |-> is_some(parse_time_stamp(time_stamp[1])),
          value |-> parse_time_stamp(time_stamp[1])]

\* the emptiness test left out
is_empty_never(chunk_results) == FALSE

\* chunk_results.is_empty(): no row owns the matched point
is_empty(chunk_results) == chunk_results = {}

\* the collision branch handing the new chunk's vector to the point
collision_point_update_with_vector(L) ==
    [metadata |-> Some(L.content), updated_vector |-> L.embedding_vector]

\* the metadata and vector create_chunk hands to update_qdrant_point_query on a
\* collision
collision_point_update(L) == [metadata |-> None, updated_vector |-> None]

\* the nil uuid in place of the generated one
new_chunk_point_id_nil(qdrant_point_id) == Some(0)

\* the point id the new-chunk branch gives the chunk
new_chunk_point_id(qdrant_point_id) == Some(qdrant_point_id)

\* the duplicate given the matched point's id
duplicate_chunk_point_id_shared(collision) == collision

\* the point id the collision branch gives the chunk
duplicate_chunk_point_id(collision) == None

\* the flag left as it was initialised
duplicate_after_insert_unset == FALSE

\* duplicate = true, once the collision branch has inserted the row
duplicate_after_insert == TRUE

\* the nil uuid in place of the matched point
orphan_point_id_nil(L) == 0

\* the point create_chunk deletes when no row owns the matched point
orphan_point_id(L) == L.first_semantic_result[1].point_id

\* after the writes of either branch: the bookmark when a collection is named,
\* the response otherwise
AfterWrites(C) ==
    IF is_some(C.req.collection_id) THEN Goto(C, "create_chunk_bookmark_query")
    ELSE Respond(C, "Ok", "")

\* let _ = web::block(create_chunk_bookmark_query).await?: the outcome of the
\* query is dropped and the response is the created chunk
bookmark_response(C, failed) == Respond(C, "Ok", "")

\* the weight of a new row: the literal 0.0 on both paths, whatever the request's
created_weight(req) == 0

\* the synchronous code of a branch up to its insert: parse the time stamp, build
\* the row.  point_id is the row's qdrant_point_id, insert the branch's insert call.
BuildChunkMetadata(S, L, point_id, insert) ==
    LET ts == transpose_time_stamp(L.req.time_stamp)
    IN IF ~ts.ok THEN Respond(L, "BadRequest", "Invalid timestamp format")
       ELSE [L EXCEPT !.pc = insert,
                      !.chunk_metadata = Some(from_details(S, L.content[1],
                                                  L.req.chunk_html, L.req.link,
                                                  L.req.tag_set, L.req.user,
                                                  point_id, L.req.metadata,
                                                  filter_tracking_id(L.req.tracking_id),
                                                  ts.value, created_weight(L.req)))]

\* One awaited call of create_chunk and the code up to the next one.  pick: the
\* top match the index returns.
CreateStep(S, L, pick) ==
    LET C == Called(L)
        ok == Succeeds(L)
    IN
    CASE L.pc = "get_row_count_for_dataset_id_query" ->
            [S |-> S,
             L |-> IF ~ok THEN Respond(C, "BadRequest", "row count")
                   ELSE IF over_plan(get_row_count_for_dataset_id_query(S), L.req.plan)
                   THEN Respond(C, "UpgradeRequired", "Must upgrade your plan to add more chunks")
                   ELSE Goto(C, "convert_html")]
      [] L.pc = "convert_html" ->
            [S |-> S,
             L |-> IF ~ok THEN Respond(C, "BadRequest", "Could not parse html")
                   ELSE LET content == convert_html(unwrap_or(L.req.chunk_html, ""))
                        IN IF is_some(L.req.chunk_vector)
                           THEN [C EXCEPT !.content = Some(content),
                                          !.embedding_vector = L.req.chunk_vector,
                                          !.pc = "global_unfiltered_top_match_query"]
                           ELSE [C EXCEPT !.content = Some(content),
                                          !.pc = "create_embedding"]]
      [] L.pc = "create_embedding" ->
            [S |-> S,
             L |-> IF ~ok THEN Respond(C, "Error", "create_embedding")
                   ELSE [C EXCEPT !.embedding_vector = Some(create_embedding(L.content[1])),
                                  !.pc = "global_unfiltered_top_match_query"]]
      [] L.pc = "global_unfiltered_top_match_query" ->
            IF ~ok THEN [S |-> S, L |-> Respond(C, "BadRequest",
                              "Could not get semantic similarity for collision check")]
            ELSE IF is_collision(pick.score,
                                 duplicate_distance_threshold(L.req.server_configuration))
            THEN [S |-> S,
                  L |-> [C EXCEPT !.first_semantic_result = Some(pick),
                                  !.collision = Some(pick.point_id),
                                  !.pc = "get_metadata_from_point_ids"]]
            ELSE \* no collision: uuid::Uuid::new_v4() names the new point
                 LET pid == S.point_seq + 1
                     D == [C EXCEPT !.first_semantic_result = Some(pick),
                                    !.qdrant_point_id = Some(pid)]
                     B == BuildChunkMetadata(S, D, new_chunk_point_id(pid),
                                             "insert_chunk_metadata_query")
                 IN [S |-> [S EXCEPT !.point_seq = pid,
                                     !.chunk_seq = IF B.pc = "done" THEN @ ELSE @ + 1],
                     L |-> B]
      [] L.pc = "get_metadata_from_point_ids" ->
            [S |-> S,
             L |-> IF ~ok THEN Respond(C, "BadRequest", "get_metadata_from_point_ids")
                   ELSE IF is_empty(get_metadata_from_point_ids(S, {L.collision[1]}))
                   THEN Goto(C, "delete_qdrant_point_id_query")
                   ELSE Goto(C, "update_qdrant_point_query")]
      [] L.pc = "delete_qdrant_point_id_query" ->
            IF ~ok THEN [S |-> S, L |-> Respond(C, "BadRequest",
                              "Could not delete qdrant point id. Please try again.")]
            ELSE [S |-> delete_qdrant_point_id_query(S, orphan_point_id(L)),
                  L |-> Respond(C, "BadRequest",
                              "There was a data inconsistency issue. Please try again.")]
      [] L.pc = "update_qdrant_point_query" ->
            IF ~ok \/ L.collision[1] \notin DOMAIN S.qdrant
            THEN [S |-> S, L |-> Respond(C, "Error", "update_qdrant_point_query")]
            ELSE LET T == update_qdrant_point_query(S, collision_point_update(L).metadata,
                              L.collision[1], L.req.user,
                              collision_point_update(L).updated_vector)
                     B == BuildChunkMetadata(T, C, duplicate_chunk_point_id(L.collision),
                                             "insert_duplicate_chunk_metadata_query")
                 IN [S |-> [T EXCEPT !.chunk_seq = IF B.pc = "done" THEN @ ELSE @ + 1],
                     L |-> B]
      [] L.pc = "insert_duplicate_chunk_metadata_query" ->
            IF ~ok \/ TrackingIdTaken(S, L.chunk_metadata[1])
            THEN [S |-> S, L |-> Respond(C, "BadRequest",
                                         "insert_duplicate_chunk_metadata_query")]
            ELSE [S |-> insert_duplicate_chunk_metadata_query(S, L.chunk_metadata[1],
                                                              L.collision[1]),
                  L |-> AfterWrites([C EXCEPT !.duplicate = duplicate_after_insert])]
      [] L.pc = "insert_chunk_metadata_query" ->
            IF ~ok \/ TrackingIdTaken(S, L.chunk_metadata[1])
            THEN [S |-> S, L |-> Respond(C, "BadRequest", "insert_chunk_metadata_query")]
            ELSE [S |-> insert_chunk_metadata_query(S, L.chunk_metadata[1]),
                  L |-> Goto(C, "create_new_qdrant_point_query")]
      [] L.pc = "create_new_qdrant_point_query" ->
            IF ~ok THEN [S |-> S, L |-> Respond(C, "Error", "create_new_qdrant_point_query")]
            ELSE [S |-> create_new_qdrant_point_query(S, L.qdrant_point_id[1],
                                                      L.embedding_vector[1], L.req.user),
                  L |-> AfterWrites(C)]
      [] L.pc = "create_chunk_bookmark_query" ->
            [S |-> IF ok THEN create_chunk_bookmark_query(S, L.req.collection_id[1],
                                                          L.chunk_metadata[1].id)
                   ELSE S,
             L |-> bookmark_response(C, ~ok)]

\* --------------------------------------- user_owns_chunk[_tracking_id]

\* the lookup without the author check
UserOwnsAnyAuthor(C, lookup, next) ==
    IF lookup = None THEN Respond(C, "BadRequest", "chunk not found")
    ELSE [C EXCEPT !.found = lookup, !.pc = next]

\* the lookup of the chunk and the author check; lookup is the row found (or None)
UserOwns(C, lookup, next) ==
    IF lookup = None THEN Respond(C, "BadRequest", "chunk not found")
    ELSE IF lookup[1].author_id # C.req.user THEN Respond(C, "Forbidden", "")
    ELSE [C EXCEPT !.found = lookup, !.pc = next]

Lookup(S, L) ==
    IF L.pc = "get_metadata_from_id_query"
    THEN get_metadata_from_id_query(S, L.req.chunk_uuid)
    ELSE get_metadata_from_tracking_id_query(S, L.req.tracking_id)

\* -------------------------------------------------------------- delete_chunk

\* the chunk_collisions rows of the duplicates of point_id, oldest first
DuplicatesOf(S, point_id) ==
    SelectSeqBy(S.collisions,
                {r \in {S.collisions[i] : i \in 1..Len(S.collisions)} :
                     r.collision_qdrant_id = point_id})

\* delete_chunk_metadata_query, the metadata-store transaction: the row and its
\* own collision row go; when the chunk owned qdrant_point_id and that point has
\* duplicates, the most recently created one becomes root under a new point id
\* and the other duplicates are moved to it.  Returns the stores and the
\* promoted chunk.
delete_chunk_metadata_transaction(S, chunk_uuid, qdrant_point_id) ==
    LET rows == {S.collisions[i] : i \in 1..Len(S.collisions)}
        rest == SelectSeqBy(S.collisions, {r \in rows : r.chunk_id # chunk_uuid})
        T == [S EXCEPT !.meta = Drop(S.meta, chunk_uuid), !.collisions = rest]
        dups == IF qdrant_point_id = None THEN <<>> ELSE DuplicatesOf(T, qdrant_point_id[1])
    IN IF dups = <<>> THEN [S |-> T, promoted |-> None, new_point |-> None]
       ELSE LET latest == dups[Len(dups)]
                pid == T.point_seq + 1
                moved == [i \in 1..Len(T.collisions) |->
                             IF T.collisions[i].collision_qdrant_id = qdrant_point_id[1]
                             THEN [T.collisions[i] EXCEPT !.collision_qdrant_id = pid]
                             ELSE T.collisions[i]]
                others == SelectSeqBy(moved,
                             {r \in {moved[i] : i \in 1..Len(moved)} :
                                  r.chunk_id # latest.chunk_id})
            IN [S |-> [T EXCEPT !.meta[latest.chunk_id].qdrant_point_id = Some(pid),
                                !.collisions = others,
                                !.point_seq = pid],
                promoted |-> Some(latest.chunk_id), new_point |-> Some(pid)]

\* no point id handed over
delete_point_arg_none(chunk_metadata) == None

\* the point id delete_chunk hands to delete_chunk_metadata_query
delete_point_arg(chunk_metadata) == chunk_metadata.qdrant_point_id

\* the outcome of delete_chunk_metadata_query ignored
delete_chunk_response_ignoring(C, failed) == Respond(C, "NoContent", "")

\* the response of delete_chunk to the outcome of delete_chunk_metadata_query
delete_chunk_response(C, failed) ==
    IF failed THEN Respond(C, "BadRequest", "delete_chunk_metadata_query")
    ELSE Respond(C, "NoContent", "")

\* One awaited call of delete_chunk / delete_chunk_by_tracking_id (the calls
\* inside delete_chunk_metadata_query included) and the code up to the next one.
DeleteStep(S, L) ==
    LET C == Called(L)
        ok == Succeeds(L)
    IN
    CASE L.pc \in {"get_metadata_from_id_query", "get_metadata_from_tracking_id_query"} ->
            [S |-> S,
             L |-> IF ~ok THEN Respond(C, "BadRequest", "chunk not found")
                   ELSE LET U == UserOwns(C, Lookup(S, L), "delete_chunk_metadata_query")
                        IN IF U.pc = "done" THEN U
                           ELSE [U EXCEPT !.qdrant_point_id = delete_point_arg(U.found[1])]]
      [] L.pc = "delete_chunk_metadata_query" ->
            IF ~ok THEN [S |-> S, L |-> delete_chunk_response(C, TRUE)]
            ELSE LET r == delete_chunk_metadata_transaction(S, L.found[1].id, L.qdrant_point_id)
                     D == [C EXCEPT !.promoted = r.promoted, !.new_point = r.new_point]
                 IN [S |-> r.S,
                     L |-> IF is_some(L.qdrant_point_id)
                           THEN Goto(D, "delete_chunk_metadata_query/delete_point")
                           ELSE delete_chunk_response(D, FALSE)]
      [] L.pc = "delete_chunk_metadata_query/delete_point" ->
            IF ~ok THEN [S |-> S, L |-> delete_chunk_response(C, TRUE)]
            ELSE [S |-> delete_qdrant_point_id_query(S, L.qdrant_point_id[1]),
                  L |-> IF is_some(L.promoted)
                        THEN Goto(C, "delete_chunk_metadata_query/create_embedding")
                        ELSE delete_chunk_response(C, FALSE)]
      [] L.pc = "delete_chunk_metadata_query/create_embedding" ->
            [S |-> S,
             L |-> IF ~ok \/ L.promoted[1] \notin DOMAIN S.meta
                   THEN delete_chunk_response(C, TRUE)
                   ELSE [C EXCEPT !.embedding_vector =
                                      Some(create_embedding(S.meta[L.promoted[1]].content)),
                                  !.pc = "delete_chunk_metadata_query/create_point"]]
      [] L.pc = "delete_chunk_metadata_query/create_point" ->
            IF ~ok \/ L.promoted[1] \notin DOMAIN S.meta
            THEN [S |-> S, L |-> delete_chunk_response(C, TRUE)]
            ELSE [S |-> create_new_qdrant_point_query(S, L.new_point[1], L.embedding_vector[1],
                                                      S.meta[L.promoted[1]].author_id),
                  L |-> delete_chunk_response(C, FALSE)]

\* ------------------------------------ update_chunk, update_chunk_by_tracking_id

\* the tracking id the updated row gets
updated_tracking_id(L) ==
    IF L.op = "update_chunk" THEN filter_tracking_id(L.req.tracking_id)
    ELSE Some(L.req.tracking_id)

\* chunk.link, else the stored link, else the empty string
updated_link(req, chunk_metadata) ==
    unwrap_or(req.link, unwrap_or(chunk_metadata.link, ""))

\* chunk.chunk_html, else the stored one
updated_chunk_html(req, chunk_metadata) ==
    IF is_some(req.chunk_html) THEN req.chunk_html ELSE chunk_metadata.chunk_html

\* chunk.metadata.or(chunk_metadata.metadata)
updated_metadata(req, chunk_metadata) ==
    IF is_some(req.metadata) THEN req.metadata ELSE chunk_metadata.metadata

\* chunk.weight.unwrap_or(1.0)
updated_weight(req) == unwrap_or(req.weight, 1)

\* the point the chunk is searchable under in place of the one it owns
updated_point_id_looked_up(chunk_metadata, qdrant_point_id) == qdrant_point_id

\* the qdrant_point_id the updated row gets: the one the chunk had
updated_point_id(chunk_metadata, qdrant_point_id) == chunk_metadata.qdrant_point_id

\* the metadata handed over whatever the chunk is
update_point_metadata_always(chunk_metadata, metadata1) == Some(metadata1)

\* the metadata argument of update_qdrant_point_query: None for a collision
update_point_metadata(chunk_metadata, metadata1) ==
    IF chunk_metadata.qdrant_point_id = None THEN None ELSE Some(metadata1)

\* no vector handed over
update_point_vector_none(embedding_vector) == None

\* the vector argument of update_qdrant_point_query: the new embedding, always
update_point_vector(embedding_vector) == Some(embedding_vector)

\* One awaited call of update_chunk / update_chunk_by_tracking_id and the code
\* up to the next one.
UpdateStep(S, L) ==
    LET C == Called(L)
        ok == Succeeds(L)
    IN
    CASE L.pc \in {"get_metadata_from_id_query", "get_metadata_from_tracking_id_query"} ->
            [S |-> S,
             L |-> IF ~ok THEN Respond(C, "BadRequest", "chunk not found")
                   ELSE UserOwns(C, Lookup(S, L), "convert_html")]
      [] L.pc = "convert_html" ->
            [S |-> S,
             L |-> IF ~ok THEN Respond(C, "BadRequest", "Could not parse html")
                   ELSE [C EXCEPT !.content = Some(convert_html(
                                      unwrap_or(L.req.chunk_html, L.found[1].content))),
                                  !.pc = "create_embedding"]]
      [] L.pc = "create_embedding" ->
            [S |-> S,
             L |-> IF ~ok THEN Respond(C, "Error", "create_embedding")
                   ELSE [C EXCEPT !.embedding_vector = Some(create_embedding(L.content[1])),
                                  !.pc = "get_qdrant_id_from_chunk_id_query"]]
      [] L.pc = "get_qdrant_id_from_chunk_id_query" ->
            [S |-> S,
             L |-> LET qid == get_qdrant_id_from_chunk_id_query(S, L.found[1].id)
                       ts == transpose_time_stamp(L.req.time_stamp)
                   IN IF ~ok \/ qid = None THEN Respond(C, "BadRequest", "chunk not found")
                      ELSE IF ~ts.ok THEN Respond(C, "BadRequest", "Invalid timestamp format")
                      ELSE [C EXCEPT
                              !.qdrant_point_id = qid,
                              !.chunk_metadata = Some(from_details_with_id(
                                  L.found[1].id, L.content[1],
                                  updated_chunk_html(L.req, L.found[1]),
                                  Some(updated_link(L.req, L.found[1])),
                                  L.found[1].tag_set, L.req.user,
                                  updated_point_id(L.found[1], qid),
                                  updated_metadata(L.req, L.found[1]),
                                  updated_tracking_id(L),
                                  IF is_some(ts.value) THEN ts.value
                                  ELSE L.found[1].time_stamp,
                                  updated_weight(L.req))),
                              !.pc = "update_chunk_metadata_query"]]
      [] L.pc = "update_chunk_metadata_query" ->
            IF \/ ~ok
               \/ L.chunk_metadata[1].id \notin DOMAIN S.meta
               \/ TrackingIdTaken(S, L.chunk_metadata[1])
            THEN [S |-> S, L |-> Respond(C, "BadRequest", "update_chunk_metadata_query")]
            ELSE [S |-> update_chunk_metadata_query(S, L.chunk_metadata[1]),
                  L |-> Goto(C, "update_qdrant_point_query")]
      [] L.pc = "update_qdrant_point_query" ->
            LET metadata == update_point_metadata(L.found[1], L.chunk_metadata[1])
                point_id == L.qdrant_point_id[1]
            IN IF ~ok \/ (metadata = None /\ point_id \notin DOMAIN S.qdrant)
               THEN [S |-> S, L |-> Respond(C, "Error", "update_qdrant_point_query")]
               ELSE IF point_id \notin DOMAIN S.qdrant
               THEN [S |-> create_new_qdrant_point_query(S, point_id,
                                L.embedding_vector[1], L.req.user),
                     L |-> Respond(C, "NoContent", "")]
               ELSE [S |-> update_qdrant_point_query(S, metadata, point_id, L.req.user,
                                         update_point_vector(L.embedding_vector[1])),
                     L |-> Respond(C, "NoContent", "")]

\* ------------------------------------------------------------------ requests

FirstCall(op) ==
    CASE op = "create_chunk" -> "get_row_count_for_dataset_id_query"
      [] op \in {"delete_chunk", "update_chunk"} -> "get_metadata_from_id_query"
      [] OTHER -> "get_metadata_from_tracking_id_query"

\* the handler entered: the code before its first awaited call
Enter(op, in, S) ==
    LET req == in[1]
        L == NewRequest(op, req, in[2], S)
    IN IF op = "update_chunk_by_tracking_id" /\ req.tracking_id = ""
       THEN Respond(L, "BadRequest", "Tracking id must be provided to update by tracking_id")
       ELSE Goto(L, FirstCall(op))

Step(S, L, pick) ==
    CASE L.op = "create_chunk" -> CreateStep(S, L, pick)
      [] L.op \in {"delete_chunk", "delete_chunk_by_tracking_id"} -> DeleteStep(S, L)
      [] OTHER -> UpdateStep(S, L)

\* a handler run to its response
RECURSIVE Run(_, _, _)
Run(S, L, pick) ==
    IF L.pc = "done" THEN [S |-> S, L |-> L]
    ELSE LET r == Step(S, L, pick) IN Run(r.S, r.L, pick)

Opt(X) == {None} \cup {Some(x) : x \in X}

ChunkIds == 1..MaxChunks

\* the awaited calls of a handler, any of which may fail (or the request be
\* cancelled at it)
Calls(op) ==
    CASE op = "create_chunk" ->
            {"get_row_count_for_dataset_id_query", "convert_html", "create_embedding",
             "global_unfiltered_top_match_query", "get_metadata_from_point_ids",
             "delete_qdrant_point_id_query", "update_qdrant_point_query",
             "insert_duplicate_chunk_metadata_query", "insert_chunk_metadata_query",
             "create_new_qdrant_point_query", "create_chunk_bookmark_query"}
      [] op \in {"delete_chunk", "delete_chunk_by_tracking_id"} ->
            {FirstCall(op), "delete_chunk_metadata_query",
             "delete_chunk_metadata_query/delete_point",
             "delete_chunk_metadata_query/create_embedding",
             "delete_chunk_metadata_query/create_point"}
      [] OTHER ->
            {FirstCall(op), "convert_html", "create_embedding",
             "get_qdrant_id_from_chunk_id_query", "update_chunk_metadata_query",
             "update_qdrant_point_query"}

Deviations(req, plain, failAt) ==
    Cardinality({f \in DOMAIN plain : req[f] # plain[f]})
        + (IF failAt = "none" THEN 0 ELSE 1)

\* the requests of a handler with the call that fails and the deviations this
\* takes: <<req, failAt, n>>
Inputs(op, reqs, plain) ==
    {<<in[1], in[2], Deviations(in[1], plain, in[2])>> :
        in \in {x \in reqs \X (Calls(op) \cup {"none"}) :
                    Deviations(x[1], plain, x[2]) <= MaxDeviations}}

\* the input is within what is left of the behaviour's deviations
Affordable(in) ==
    /\ deviations + in[3] <= MaxDeviations
    /\ chunk_seq + deviations + in[3] <= MaxWork
    /\ deviations' = deviations + in[3]

\* Under Spec and SpecConc the requests do not vary in link, tag_set, metadata
\* and weight: creates carry the empty link and updates the weight 0, the
\* values an update and a create write for an absent one.  SpecFields varies them.
PlainCreate ==
    [chunk_html |-> Some("a"), link |-> Some(""), tag_set |-> None, metadata |-> None,
     chunk_vector |-> None, tracking_id |-> None,
     time_stamp |-> None, weight |-> None, user |-> "u1", server_configuration |-> None,
     plan |-> None, collection_id |-> None]

CreateInputs ==
    Inputs("create_chunk",
           [chunk_html : {Some(h) : h \in Htmls}, link : {Some("")}, tag_set : {None},
            metadata : {None}, chunk_vector : Opt({1}),
            tracking_id : Opt(TrackingIds), time_stamp : Opt(TimeStamps), weight : {None},
            user : Users,
            server_configuration : Opt({90}), plan : Opt({[chunk_count |-> 1]}),
            collection_id : Opt({"g1"})],
           PlainCreate)

DeleteInputs ==
    Inputs("delete_chunk", [chunk_uuid : ChunkIds, user : Users], [user |-> "u1"])

DeleteByTrackingIdInputs ==
    Inputs("delete_chunk_by_tracking_id", [tracking_id : TrackingIds, user : Users],
           [user |-> "u1"])

PlainUpdate ==
    [link |-> None, chunk_html |-> None, metadata |-> None, tracking_id |-> None,
     time_stamp |-> None, weight |-> Some(0), user |-> "u1"]

UpdateInputs ==
    Inputs("update_chunk",
           [chunk_uuid : ChunkIds, link : {None}, chunk_html : Opt({"a", "b"}),
            metadata : {None}, tracking_id : Opt({"t1"}),
            time_stamp : Opt(TimeStamps), weight : {Some(0)}, user : Users],
           PlainUpdate)

UpdateByTrackingIdInputs ==
    Inputs("update_chunk_by_tracking_id",
           [tracking_id : TrackingIds, link : {None}, chunk_html : Opt({"a", "b"}),
            metadata : {None}, time_stamp : Opt(TimeStamps), weight : {Some(0)}, user : Users],
           [link |-> None, chunk_html |-> None, metadata |-> None, time_stamp |-> None,
            weight |-> Some(0), user |-> "u1"])

\* the vector create_chunk searches with
RequestVector(req) ==
    IF is_some(req.chunk_vector) THEN req.chunk_vector[1]
    ELSE create_embedding(convert_html(unwrap_or(req.chunk_html, "")))

NoPick == [point_id |-> 0, score |-> 0]

Idle == [op |-> "idle"]

Procs == {1, 2}

Init ==
    /\ meta = EmptyFn
    /\ collisions = <<>>
    /\ qdrant = EmptyFn
    /\ bookmarks = {}
    /\ chunk_seq = 0
    /\ point_seq = 0
    /\ procs = [p \in Procs |-> Idle]
    /\ last = Idle
    /\ deviations = 0

\* the stores become r.S and the response of r.L is on its way to the caller
Completed(r) ==
    /\ meta' = r.S.meta
    /\ collisions' = r.S.collisions
    /\ qdrant' = r.S.qdrant
    /\ bookmarks' = r.S.bookmarks
    /\ chunk_seq' = r.S.chunk_seq
    /\ point_seq' = r.S.point_seq
    /\ last' = r.L

\* no request is running: the requests of Spec run one after the other
Quiet == last = Idle /\ \A p \in Procs : procs[p] = Idle

create_chunk ==
    /\ Quiet
    /\ chunk_seq < MaxChunks
    /\ \E in \in CreateInputs :
         /\ Affordable(in)
         /\ chunk_seq + 1 + deviations' <= MaxWork
         /\ \E pick \in global_unfiltered_top_match_query(Stores, RequestVector(in[1])) :
            Completed(Run(Stores, Enter("create_chunk", in, Stores), pick))
    /\ UNCHANGED procs

delete_chunk ==
    /\ Quiet
    /\ \E in \in DeleteInputs :
         /\ Affordable(in)
         /\ Completed(Run(Stores, Enter("delete_chunk", in, Stores), NoPick))
    /\ UNCHANGED procs

delete_chunk_by_tracking_id ==
    /\ Quiet
    /\ \E in \in DeleteByTrackingIdInputs :
         /\ Affordable(in)
         /\ Completed(Run(Stores, Enter("delete_chunk_by_tracking_id", in, Stores), NoPick))
    /\ UNCHANGED procs

update_chunk ==
    /\ Quiet
    /\ \E in \in UpdateInputs :
         /\ Affordable(in)
         /\ Completed(Run(Stores, Enter("update_chunk", in, Stores), NoPick))
    /\ UNCHANGED procs

update_chunk_by_tracking_id ==
    /\ Quiet
    /\ \E in \in UpdateByTrackingIdInputs :
         /\ Affordable(in)
         /\ Completed(Run(Stores, Enter("update_chunk_by_tracking_id", in, Stores), NoPick))
    /\ UNCHANGED procs

\* the caller receives the response
Receive ==
    /\ last # Idle
    /\ last' = Idle
    /\ UNCHANGED <<meta, collisions, qdrant, bookmarks, chunk_seq, point_seq, procs, deviations>>

Next ==
    \/ create_chunk
    \/ delete_chunk
    \/ delete_chunk_by_tracking_id
    \/ update_chunk
    \/ update_chunk_by_tracking_id
    \/ Receive

Spec == Init /\ [][Next]_vars

\* ------------------------------------------------------ concurrent requests
\* procs[p] is the request process p is serving, or Idle.  Under SpecConc a
\* request notes of the stores at its arrival only which points existed.

InFlight(p) == procs[p] # Idle /\ procs[p].pc # "done"

Responded(p) == procs[p] # Idle /\ procs[p].pc = "done"

Begin(p, op, in) ==
    /\ procs[p] = Idle
    /\ last = Idle
    /\ Affordable(in)
    /\ deviations' <= MaxConcDeviations
    /\ procs' = [procs EXCEPT ![p] = Enter(op, in, [points |-> DOMAIN qdrant])]
    /\ UNCHANGED <<meta, collisions, qdrant, bookmarks, chunk_seq, point_seq, last>>

BeginCreate(p) ==
    /\ chunk_seq + Cardinality({q \in Procs : InFlight(q) /\ procs[q].op = "create_chunk"})
          < MaxConcChunks
    /\ \E in \in CreateInputs : Begin(p, "create_chunk", in)

BeginDelete(p) ==
    \E in \in DeleteInputs :
        in[1].chunk_uuid <= MaxConcChunks /\ Begin(p, "delete_chunk", in)

\* the awaited call of request p returns and the handler runs to its next call
Await(p) ==
    /\ InFlight(p)
    /\ LET L == procs[p]
       IN \E pick \in IF L.pc = "global_unfiltered_top_match_query"
                     THEN global_unfiltered_top_match_query(Stores, L.embedding_vector[1])
                     ELSE {NoPick} :
             LET r == Step(Stores, L, pick)
             IN /\ meta' = r.S.meta
                /\ collisions' = r.S.collisions
                /\ qdrant' = r.S.qdrant
                /\ bookmarks' = r.S.bookmarks
                /\ chunk_seq' = r.S.chunk_seq
                /\ point_seq' = r.S.point_seq
                /\ procs' = [procs EXCEPT ![p] = r.L]
    /\ UNCHANGED <<last, deviations>>

\* the caller of request p receives the response
ReceiveConc(p) ==
    /\ Responded(p)
    /\ procs' = [procs EXCEPT ![p] = Idle]
    /\ UNCHANGED <<meta, collisions, qdrant, bookmarks, chunk_seq, point_seq, last, deviations>>

NextConc ==
    \/ \E p \in Procs : BeginCreate(p)
    \/ \E p \in Procs : BeginDelete(p)
    \/ \E p \in Procs : Await(p)
    \/ \E p \in Procs : ReceiveConc(p)

SpecConc == Init /\ [][NextConc]_vars

\* =================================================================== claims

Status(L) == L.resp[1].status

\* the duplicate threshold of the request's dataset, in hundredths
Threshold(req) ==
    IF req.server_configuration = None THEN 95 ELSE req.server_configuration[1]

\* the chunks of S that own point p
OwnersOf(S, p) == {c \in DOMAIN S.meta : S.meta[c].qdrant_point_id = Some(p)}

\* the index answered the collision query of request L
Matched(L) == L.op = "create_chunk" /\ is_some(L.first_semantic_result)

\* the answer was the point of an existing chunk, at or above the threshold
Collided(L) ==
    /\ Matched(L)
    /\ L.first_semantic_result[1].score >= Threshold(L.req)
    /\ OwnersOf(L.before, L.first_semantic_result[1].point_id) # {}

\* the answer was no point, or a point below the threshold
NotCollided(L) ==
    /\ Matched(L)
    /\ L.first_semantic_result[1].score < Threshold(L.req)

\* the request is well formed and none of its calls fails
Sound(L) ==
    /\ L.failAt = "none"
    /\ L.req.time_stamp \in {None, Some("2024-01-01T00:00:00")}
    /\ \/ L.req.tracking_id \in {None, Some("")}
       \/ \A c \in DOMAIN L.before.meta :
              L.before.meta[c].tracking_id # L.req.tracking_id

Linked(chunk_id, point_id) ==
    \E i \in 1..Len(collisions) :
        collisions[i] = [chunk_id |-> chunk_id, collision_qdrant_id |-> point_id]

\* C1: a create_chunk whose top match is the point of an existing chunk with
\* score >= the dataset's threshold (0.95 when not configured) succeeds when the
\* request is well formed and no call fails, and when it succeeds the new chunk
\* is stored without a vector_point_id, the response says duplicate=true, the
\* chunk is linked to the matched point, and the index holds the same points as
\* before the request.
C1_CollisionMakesDuplicate ==
    (last # Idle /\ Collided(last)) =>
        /\ Sound(last) => Status(last) = "Ok"
        /\ Status(last) = "Ok" =>
              LET b == last.chunk_metadata[1].id
              IN /\ b \in DOMAIN meta
                 /\ b \notin DOMAIN last.before.meta
                 /\ meta[b].qdrant_point_id = None
                 /\ last.duplicate
                 /\ Linked(b, last.first_semantic_result[1].point_id)
                 /\ DOMAIN qdrant = DOMAIN last.before.qdrant

\* a near (not identical) duplicate has been ingested
C1_Witness ==
    /\ last # Idle /\ Collided(last) /\ Status(last) = "Ok"
    /\ last.first_semantic_result[1].score < 100
    /\ last.req.server_configuration = None
    /\ last.duplicate

\* C2: a create_chunk whose top match is absent or below the threshold succeeds
\* when the request is well formed and no call fails, and when it succeeds the
\* chunk is stored with a point id generated by the request, a point with that
\* id carries the chunk's embedding, the response says duplicate=false, and no
\* other chunk holds that point id.
C2_NoCollisionMakesRoot ==
    (last # Idle /\ NotCollided(last)) =>
        /\ Sound(last) => Status(last) = "Ok"
        /\ Status(last) = "Ok" =>
              LET b == last.chunk_metadata[1].id
                  p == meta[b].qdrant_point_id
              IN /\ b \in DOMAIN meta
                 /\ b \notin DOMAIN last.before.meta
                 /\ is_some(p)
                 /\ p[1] > last.before.point_seq
                 /\ p[1] \in DOMAIN qdrant \ DOMAIN last.before.qdrant
                 /\ qdrant[p[1]].vector = RequestVector(last.req)
                 /\ ~last.duplicate
                 /\ OwnersOf(Stores, p[1]) = {b}

\* a second root has been ingested next to an existing one
C2_Witness ==
    /\ last # Idle /\ NotCollided(last) /\ Status(last) = "Ok"
    /\ last.first_semantic_result[1].score > 0
    /\ \E c \in DOMAIN last.before.meta : is_some(last.before.meta[c].qdrant_point_id)

\* C3: no two chunks hold the same vector_point_id.
C3_PointIdUnique ==
    \A c, d \in DOMAIN meta :
        (c # d /\ is_some(meta[c].qdrant_point_id)) =>
            meta[c].qdrant_point_id # meta[d].qdrant_point_id

\* two roots and a duplicate, after an update and a delete
C3_Witness ==
    /\ \E c, d \in DOMAIN meta :
          c # d /\ is_some(meta[c].qdrant_point_id) /\ is_some(meta[d].qdrant_point_id)
    /\ \E c \in DOMAIN meta : meta[c].qdrant_point_id = None
    /\ last # Idle /\ last.op = "update_chunk" /\ Status(last) = "NoContent"
    /\ \E c \in DOMAIN last.before.meta : last.before.meta[c].qdrant_point_id = None
                                            /\ c = last.req.chunk_uuid

\* no call of request L failed: the failing call was never issued
NoFailure(L) == \A i \in 1..Len(L.io) : L.io[i] # L.failAt

IsDelete(L) == L.op \in {"delete_chunk", "delete_chunk_by_tracking_id"}

\* the chunks the request names, as the stores held them when it arrived
Targets(L) ==
    IF L.op \in {"delete_chunk", "update_chunk"}
    THEN {c \in DOMAIN L.before.meta : c = L.req.chunk_uuid}
    ELSE IF L.op = "create_chunk" THEN {}
    ELSE {c \in DOMAIN L.before.meta :
              L.before.meta[c].tracking_id = Some(L.req.tracking_id)}

\* the duplicates of point p when request L arrived
DuplicatesBefore(L, p) ==
    {c \in DOMAIN L.before.meta :
        \E i \in 1..Len(L.before.collisions) :
            L.before.collisions[i] = [chunk_id |-> c, collision_qdrant_id |-> p]}

MaxOf(set) == CHOOSE x \in set : \A y \in set : y <= x

\* request L was a delete, answered with success, of root r owning point p
DeletedRoot(L, r, p) ==
    /\ IsDelete(L)
    /\ Status(L) = "NoContent"
    /\ r \in Targets(L)
    /\ L.before.meta[r].qdrant_point_id = Some(p)

\* C4: a delete of a root (by id or by tracking id) succeeds when its author
\* asks and no call fails.  When it succeeds and the root had duplicates, the
\* most recently created one owns a point created by the request, the old point
\* is gone and the other duplicates belong to the new point; when the root had
\* no duplicates its point is gone and every other chunk is as it was.
C4_DeleteRootPromotes ==
    last # Idle =>
        \A r \in Targets(last) :
            LET row == last.before.meta[r]
                p == row.qdrant_point_id
            IN (IsDelete(last) /\ is_some(p)) =>
                 /\ (last.failAt = "none" /\ last.req.user = row.author_id)
                        => Status(last) = "NoContent"
                 /\ DeletedRoot(last, r, p[1]) =>
                      LET dups == DuplicatesBefore(last, p[1])
                      IN /\ r \notin DOMAIN meta
                         /\ p[1] \notin DOMAIN qdrant
                         /\ dups = {} =>
                              /\ meta = Drop(last.before.meta, r)
                              /\ DOMAIN qdrant = DOMAIN last.before.qdrant \ {p[1]}
                         /\ dups # {} =>
                              LET n == MaxOf(dups)
                                  np == meta[n].qdrant_point_id
                              IN /\ is_some(np)
                                 /\ np[1] > last.before.point_seq
                                 /\ np[1] \in DOMAIN qdrant
                                 /\ OwnersOf(Stores, np[1]) = {n}
                                 /\ \A d \in dups \ {n} :
                                       /\ meta[d].qdrant_point_id = None
                                       /\ Linked(d, np[1])

\* a root with two duplicates has been deleted
C4_Witness ==
    /\ last # Idle
    /\ \E r \in Targets(last) : \E p \in DOMAIN last.before.qdrant :
          /\ DeletedRoot(last, r, p)
          /\ Cardinality(DuplicatesBefore(last, p)) = 2

\* C5: in the state in which the success response of a delete of a root with
\* duplicates is returned, the old point is deleted, the new root's point exists
\* and every remaining member of the group owns it or is linked to it: the group
\* is not headless.
C5_NoHeadlessGroupAtResponse ==
    last # Idle =>
        \A r \in Targets(last) : \A p \in DOMAIN last.before.qdrant :
            (DeletedRoot(last, r, p) /\ DuplicatesBefore(last, p) # {}) =>
                /\ p \notin DOMAIN qdrant
                /\ \E q \in DOMAIN qdrant :
                      /\ q \notin DOMAIN last.before.qdrant
                      /\ \E m \in DuplicatesBefore(last, p) :
                            /\ m \in DOMAIN meta
                            /\ meta[m].qdrant_point_id = Some(q)
                            /\ \A d \in DuplicatesBefore(last, p) \ {m} : Linked(d, q)

\* a root with a duplicate has been deleted by tracking id
C5_Witness ==
    /\ last # Idle /\ last.op = "delete_chunk_by_tracking_id"
    /\ \E r \in Targets(last) : \E p \in DOMAIN last.before.qdrant :
          DeletedRoot(last, r, p) /\ DuplicatesBefore(last, p) # {}

\* the index answered with a point at or above the threshold that no chunk owns
MatchedOrphan(L) ==
    /\ Matched(L)
    /\ L.first_semantic_result[1].score >= Threshold(L.req)
    /\ OwnersOf(L.before, L.first_semantic_result[1].point_id) = {}

\* C6: when the top match of create_chunk is at or above the threshold and no
\* chunk owns the matched point, the request fails, inserts no row and creates
\* no point; when no call fails the orphaned point is deleted and the error is
\* the data-inconsistency one.
C6_OrphanDeletedAndIngestFails ==
    (last # Idle /\ MatchedOrphan(last)) =>
        LET orphan == last.first_semantic_result[1].point_id
        IN /\ Status(last) # "Ok"
           /\ meta = last.before.meta
           /\ collisions = last.before.collisions
           /\ DOMAIN qdrant \subseteq DOMAIN last.before.qdrant
           /\ NoFailure(last) =>
                 /\ orphan \notin DOMAIN qdrant
                 /\ DOMAIN qdrant = DOMAIN last.before.qdrant \ {orphan}
                 /\ last.resp = Some([status |-> "BadRequest", message |->
                        "There was a data inconsistency issue. Please try again."])

\* an orphaned point has been matched and deleted
C6_Witness ==
    /\ last # Idle /\ MatchedOrphan(last) /\ NoFailure(last)
    /\ last.first_semantic_result[1].point_id \in DOMAIN last.before.qdrant
    /\ last.first_semantic_result[1].point_id \notin DOMAIN qdrant

IsUpdate(L) == L.op \in {"update_chunk", "update_chunk_by_tracking_id"}

\* every point of S is a point of T with the same embedding, and T has no other
SameEmbeddings(S, T) ==
    /\ DOMAIN T.qdrant = DOMAIN S.qdrant
    /\ \A p \in DOMAIN S.qdrant : T.qdrant[p].vector = S.qdrant[p].vector

C8_CollisionKeepsPoint ==
    (last # Idle /\ Collided(last)) =>
        LET p == last.first_semantic_result[1].point_id
        IN /\ SameEmbeddings(last.before, Stores)
           /\ last.before.qdrant[p].authors \subseteq qdrant[p].authors
           /\ \A o \in DOMAIN qdrant \ {p} : qdrant[o] = last.before.qdrant[o]

\* a collision of a chunk whose vector differs from the matched point's, by
\* another author: the authors changed, the embedding did not
C8_Witness ==
    /\ last # Idle /\ Collided(last) /\ Status(last) = "Ok"
    /\ LET p == last.first_semantic_result[1].point_id
       IN /\ RequestVector(last.req) # last.before.qdrant[p].vector
          /\ qdrant[p].authors # last.before.qdrant[p].authors

\* request p is an answered create_chunk that succeeded
CreatedOk(p) ==
    /\ Responded(p)
    /\ procs[p].op = "create_chunk"
    /\ Status(procs[p]) = "Ok"

\* C9: of two successful create_chunk requests with the same content, one that
\* arrives when the other's root and point are already stored becomes a
\* duplicate: it gets no point of its own.  (Two requests in flight together
\* can both become roots: C9_Witness.)
C9_SequentialCreatesDeduplicate ==
    \A p \in Procs : \A q \in Procs \ {p} :
        (/\ CreatedOk(p) /\ CreatedOk(q)
         /\ RequestVector(procs[p].req) = RequestVector(procs[q].req)
         /\ Score(RequestVector(procs[q].req), RequestVector(procs[q].req))
                >= Threshold(procs[q].req)
         /\ \E c \in DOMAIN meta : \E pt \in procs[q].before.points :
                /\ c = procs[p].chunk_metadata[1].id
                /\ meta[c].qdrant_point_id = Some(pt))
        => /\ procs[q].duplicate
           /\ procs[q].chunk_metadata[1].id \in DOMAIN meta
           /\ meta[procs[q].chunk_metadata[1].id].qdrant_point_id = None

\* two interleaved create_chunk requests with the same content both ended as
\* roots, each with a point of its own
C9_Witness ==
    \E p \in Procs : \E q \in Procs \ {p} :
        /\ CreatedOk(p) /\ CreatedOk(q)
        /\ procs[p].req.chunk_html = procs[q].req.chunk_html
        /\ procs[p].req.chunk_vector = None /\ procs[q].req.chunk_vector = None
        /\ ~procs[p].duplicate /\ ~procs[q].duplicate
        /\ LET a == meta[procs[p].chunk_metadata[1].id].qdrant_point_id
               b == meta[procs[q].chunk_metadata[1].id].qdrant_point_id
           IN /\ is_some(a) /\ is_some(b) /\ a # b
              /\ a[1] \in DOMAIN qdrant /\ b[1] \in DOMAIN qdrant
              /\ qdrant[a[1]].vector = qdrant[b[1]].vector

\* C10: a create_chunk, update_chunk or update_chunk_by_tracking_id request
\* with a malformed time_stamp is answered without having issued any call to
\* the embedding model, the vector index or the metadata store.
C10_MalformedTimeStampBeforeAnyIO ==
    (/\ last # Idle
     /\ last.op \in {"create_chunk", "update_chunk", "update_chunk_by_tracking_id"}
     /\ is_some(last.req.time_stamp)
     /\ parse_time_stamp(last.req.time_stamp[1]) = None)
    => last.io = <<>>

\* the number of chunks the plan of the request's organization allows
PlanLimit(req) == IF req.plan = None THEN 1000 ELSE req.plan[1].chunk_count

\* the dataset held at least as many chunks as the plan allows when L arrived
OverQuota(L) ==
    /\ L.op = "create_chunk"
    /\ Cardinality(DOMAIN L.before.meta) >= PlanLimit(L.req)

\* C11: a create_chunk that arrives when the dataset's chunk count is at or
\* above the plan's limit issues the row count and nothing else (no html
\* conversion, no embedding call, no collision query, no write), leaves both
\* stores as they were, and is answered upgrade-required when the count succeeds.
C11_QuotaRejectsBeforeEmbedding ==
    (last # Idle /\ OverQuota(last)) =>
        /\ last.io = <<"get_row_count_for_dataset_id_query">>
        /\ Stores = last.before
        /\ Status(last) # "Ok"
        /\ NoFailure(last) => Status(last) = "UpgradeRequired"

\* a create_chunk on a dataset at its plan's limit has been answered
\* upgrade-required
C11_Witness ==
    /\ last # Idle /\ OverQuota(last)
    /\ DOMAIN last.before.meta # {}
    /\ Status(last) = "UpgradeRequired"

\* the non-empty tracking id request L asks its chunk to have, if any
WantedTrackingId(L) ==
    IF L.op \in {"create_chunk", "update_chunk"} /\ L.req.tracking_id # Some("")
    THEN L.req.tracking_id ELSE None

\* another chunk held that tracking id when L arrived
TrackingIdConflict(L) ==
    /\ WantedTrackingId(L) # None
    /\ \E c \in DOMAIN L.before.meta \ Targets(L) :
          L.before.meta[c].tracking_id = WantedTrackingId(L)

\* C12: no two chunks have the same non-empty tracking_id; a create_chunk or
\* update_chunk asking for the tracking_id of another existing chunk is answered
\* with an error and leaves every chunk row as it was.
C12_TrackingIdUnique ==
    /\ \A c \in DOMAIN meta : \A d \in DOMAIN meta \ {c} :
          (is_some(meta[c].tracking_id) /\ meta[c].tracking_id # Some(""))
              => meta[c].tracking_id # meta[d].tracking_id
    /\ (last # Idle /\ TrackingIdConflict(last)) =>
          /\ Status(last) \notin {"Ok", "NoContent"}
          /\ meta = last.before.meta
          /\ collisions = last.before.collisions

\* an update_chunk asking for another chunk's tracking_id reached the metadata
\* store and was refused
C12_Witness ==
    /\ last # Idle /\ last.op = "update_chunk" /\ TrackingIdConflict(last)
    /\ Targets(last) # {}
    /\ \E i \in 1..Len(last.io) : last.io[i] = "update_chunk_metadata_query"
    /\ Status(last) = "BadRequest"

\* a call request L issued failed
CallFailed(L) == \E i \in 1..Len(L.io) : L.io[i] = L.failAt

\* C13: whenever a collaborator call made by a request fails (the bookmark
\* creation of create_chunk included), the response is an error and not a
\* success.
C13_NoSwallowedError ==
    (last # Idle /\ CallFailed(last)) => Status(last) \notin {"Ok", "NoContent"}

\* C14: the consistency fault of ingest (the matched point has no metadata row)
\* is answered with a server error, not with the client error (400) that answers
\* validation and not-found faults.
C14_ConsistencyFaultIsServerError ==
    (last # Idle /\ MatchedOrphan(last) /\ NoFailure(last)) =>
        /\ Status(last) = "Error"
        /\ Status(last) # "BadRequest"

MetadataWrites == {"insert_chunk_metadata_query", "insert_duplicate_chunk_metadata_query"}

VectorWrites == {"create_new_qdrant_point_query", "update_qdrant_point_query"}

\* C15: in every create_chunk execution, on the new-chunk path and on the
\* duplicate path, the write of the new chunk's row is issued before the write
\* of the new point or the update of the matched point.
C15_MetadataWriteBeforeVectorWrite ==
    (last # Idle /\ last.op = "create_chunk") =>
        \A j \in 1..Len(last.io) :
            last.io[j] \in VectorWrites =>
                \E i \in 1..(j - 1) : last.io[i] \in MetadataWrites

\* C16: whatever call a create, update or delete request fails or is cancelled
\* at, no chunk row names a vector point that does not exist: what is left
\* behind is at most points without a row.
C16_OnlyOrphanPointsLeftBehind ==
    \A c \in DOMAIN meta :
        is_some(meta[c].qdrant_point_id) => meta[c].qdrant_point_id[1] \in DOMAIN qdrant

\* ------------------------------------------------- a caller that retries
\* Under SpecRetry requests first bring the stores into some state (chunks
\* created, chunks deleted, deletes that fail after the row is gone and before
\* the point is), then one caller sends a create_chunk and sends it again after
\* every failure.  procs[Caller] is the caller: the request, the number of failed
\* attempts, the number of orphaned points when it started, and whether the
\* ingest has succeeded.

Caller == 1

\* the points no chunk row owns
Orphans(S) == {p \in DOMAIN S.qdrant : OwnersOf(S, p) = {}}

SeedCreateInputs ==
    {<<[PlainCreate EXCEPT !.chunk_html = Some(h)], "none", 0>> : h \in {"a", "b"}}

SeedDeleteInputs ==
    {<<[chunk_uuid |-> c, user |-> "u1"], f, 0>> :
        c \in ChunkIds, f \in {"none", "delete_chunk_metadata_query/delete_point"}}

RetryRequests ==
    {[PlainCreate EXCEPT !.chunk_html = Some(h), !.chunk_vector = v,
                         !.server_configuration = t] :
        h \in {"a", "b"}, v \in Opt({1}), t \in Opt({90})}

SeedCreate ==
    /\ Quiet
    /\ chunk_seq < MaxChunks
    /\ \E in \in SeedCreateInputs :
         \E pick \in global_unfiltered_top_match_query(Stores, RequestVector(in[1])) :
            Completed(Run(Stores, Enter("create_chunk", in, Stores), pick))
    /\ UNCHANGED <<procs, deviations>>

SeedDelete ==
    /\ Quiet
    /\ \E in \in SeedDeleteInputs :
         Completed(Run(Stores, Enter("delete_chunk", in, Stores), NoPick))
    /\ UNCHANGED <<procs, deviations>>

Retrying == procs[Caller].op = "retry"

StartRetry ==
    /\ Quiet
    /\ \E req \in RetryRequests :
          procs' = [procs EXCEPT ![Caller] =
                       [op |-> "retry", req |-> req, failed |-> 0,
                        orphans |-> Cardinality(Orphans(Stores)), done |-> FALSE]]
    /\ UNCHANGED <<meta, collisions, qdrant, bookmarks, chunk_seq, point_seq, last, deviations>>

\* the caller sends the request (again): one create_chunk in which no call fails
Retry ==
    /\ Retrying
    /\ ~procs[Caller].done
    /\ procs[Caller].failed <= MaxChunks
    /\ last = Idle
    /\ LET req == procs[Caller].req
       IN \E pick \in global_unfiltered_top_match_query(Stores, RequestVector(req)) :
             LET r == Run(Stores, Enter("create_chunk", <<req, "none", 0>>, Stores), pick)
             IN /\ Completed(r)
                /\ procs' = [procs EXCEPT ![Caller] =
                                IF r.L.resp[1].status = "Ok"
                                THEN [@ EXCEPT !.done = TRUE]
                                ELSE [@ EXCEPT !.failed = @ + 1]]
    /\ UNCHANGED deviations

NextRetry ==
    \/ SeedCreate
    \/ SeedDelete
    \/ StartRetry
    \/ Retry
    \/ Receive

\* ENABLED <<Retry>>_vars: the index always answers the collision query, and the
\* attempt leaves its response in last
RetryEnabled ==
    /\ Retrying
    /\ ~procs[Caller].done
    /\ procs[Caller].failed <= MaxChunks
    /\ last = Idle

\* the caller does retry (weak fairness of Retry, its enabling condition written
\* out), and responses do arrive
SpecRetry ==
    /\ Init /\ [][NextRetry]_vars
    /\ ([]<>(~RetryEnabled) \/ []<><<Retry>>_vars)
    /\ WF_vars(Receive)

\* every failed attempt so far was a consistency fault and removed one orphan
HealedSoFar ==
    Retrying =>
        /\ procs[Caller].failed <= procs[Caller].orphans
        /\ Cardinality(Orphans(Stores)) = procs[Caller].orphans - procs[Caller].failed
        /\ (last # Idle /\ Status(last) # "Ok") =>
              /\ MatchedOrphan(last)
              /\ Orphans(Stores) = Orphans(last.before)
                                      \ {last.first_semantic_result[1].point_id}
              /\ Cardinality(Orphans(last.before)) = Cardinality(Orphans(Stores)) + 1

\* C17: a caller that starts with k orphaned points in the index and sends the
\* same create_chunk again after every consistency fault, with no other request
\* running and no call failing: every failed attempt removes exactly one orphan,
\* there are never more than k failed attempts, and the ingest succeeds.
C17_RetryHeals ==
    /\ []HealedSoFar
    /\ Retrying ~> (Retrying /\ procs[Caller].done)

\* the ingest succeeded at the third attempt, after two orphans were removed
C17_Witness ==
    /\ Retrying /\ procs[Caller].done
    /\ procs[Caller].orphans = 2 /\ procs[Caller].failed = 2
    /\ Orphans(Stores) = {}

\* C18: a successful update (by id or by tracking id) of a chunk that owns an
\* existing point leaves the chunk with the same point id, makes that point's
\* embedding the embedding of the chunk's new content, issues no collision
\* query, and leaves every chunk a root or a duplicate as it was: same rows,
\* same point ids, same collision links, same set of points.
C18_UpdateOfRootReembeds ==
    (last # Idle /\ IsUpdate(last) /\ Status(last) = "NoContent") =>
        \A c \in Targets(last) :
            LET p == last.before.meta[c].qdrant_point_id
            IN (is_some(p) /\ p[1] \in DOMAIN last.before.qdrant) =>
                 /\ meta[c].qdrant_point_id = p
                 /\ meta[c].content =
                       IF is_some(last.req.chunk_html)
                       THEN convert_html(last.req.chunk_html[1])
                       ELSE last.before.meta[c].content
                 /\ p[1] \in DOMAIN qdrant
                 /\ qdrant[p[1]].vector = create_embedding(meta[c].content)
                 /\ \A i \in 1..Len(last.io) :
                       last.io[i] # "global_unfiltered_top_match_query"
                 /\ DOMAIN meta = DOMAIN last.before.meta
                 /\ \A d \in DOMAIN meta :
                       meta[d].qdrant_point_id = last.before.meta[d].qdrant_point_id
                 /\ collisions = last.before.collisions
                 /\ DOMAIN qdrant = DOMAIN last.before.qdrant
                 /\ \A o \in DOMAIN qdrant \ {p[1]} : qdrant[o] = last.before.qdrant[o]

\* a root has been given new content and its point a new embedding
C18_Witness ==
    /\ last # Idle /\ IsUpdate(last) /\ Status(last) = "NoContent"
    /\ \E c \in Targets(last) :
          LET p == last.before.meta[c].qdrant_point_id
          IN /\ is_some(p) /\ p[1] \in DOMAIN last.before.qdrant
             /\ meta[c].content # last.before.meta[c].content
             /\ qdrant[p[1]].vector # last.before.qdrant[p[1]].vector

\* ---------------------------------------------------------------- parse_query
\* A query string is the sequence of its characters.  Under SpecParse last is
\* the call of parse_query: its argument and, once it has returned, its result.

Chars == {"a", "\"", "\\", "-", " ", "\n"}

Whitespace == {" ", "\n"}

Queries == UNION {[1..n -> Chars] : n \in 0..MaxQueryLen}

\* query.replace('\\', "")
replace_backslash(query) == SelectSeq(query, LAMBDA c : c # "\\")

\* the first position >= i of s holding a double quote, 0 when there is none
NextQuote(s, i) ==
    LET at == {k \in i..Len(s) : s[k] = "\""}
    IN IF at = {} THEN 0 ELSE CHOOSE k \in at : \A j \in at : k <= j

RECURSIVE captures_iter(_, _)
\* Regex "(.*?)" applied from position i on: the leftmost match starts at a
\* quote, runs to the nearest later quote and does not cross a line break ('.'
\* matches no '\n'); the search goes on behind each match.  The captures, in order.
captures_iter(s, i) ==
    IF i > Len(s) THEN <<>>
    ELSE IF s[i] # "\"" THEN captures_iter(s, i + 1)
    ELSE LET k == NextQuote(s, i + 1)
         IN IF k = 0 THEN <<>>
            ELSE IF \E j \in (i + 1)..(k - 1) : s[j] = "\n" THEN captures_iter(s, i + 1)
            ELSE <<SubSeq(s, i + 1, k - 1)>> \o captures_iter(s, k + 1)

\* .filter(|word| !word.is_empty())
non_empty(words) == SelectSeq(words, LAMBDA w : w # <<>>)

\* the list always wrapped, empty or not
some_always(words) == Some(words)

\* None when the list is empty, Some(list) otherwise
some_unless_empty(words) == IF words = <<>> THEN None ELSE Some(words)

RECURSIVE split_whitespace(_, _, _)
\* the maximal runs of non-whitespace characters of s from position i on, after
\* the run word already read
split_whitespace(s, i, word) ==
    IF i > Len(s) THEN (IF word = <<>> THEN <<>> ELSE <<word>>)
    ELSE IF s[i] \in Whitespace
    THEN (IF word = <<>> THEN <<>> ELSE <<word>>) \o split_whitespace(s, i + 1, <<>>)
    ELSE split_whitespace(s, i + 1, Append(word, s[i]))

\* word.starts_with('-')
starts_with_marker(word) == word # <<>> /\ word[1] = "-"

RECURSIVE strip_prefix_all(_)
\* every leading marker stripped
strip_prefix_all(word) ==
    IF word # <<>> /\ word[1] = "-" THEN strip_prefix_all(Tail(word)) ELSE word

\* word.strip_prefix('-').unwrap(): the one leading marker stripped
strip_prefix(word) == Tail(word)

\* .map(|word| word.strip_prefix(..)).collect()
strip_prefixes(words) == [i \in 1..Len(words) |-> strip_prefix(words[i])]

\* the words on which .strip_prefix('-').unwrap() panics: those without the marker
unwrap_panics(words) == \E i \in 1..Len(words) : ~starts_with_marker(words[i])

\* whether parse_query panics instead of returning: the regex is a constant that
\* compiles, so the only unwrap that can fail is the one on strip_prefix
parse_query_panics(query) ==
    unwrap_panics(SelectSeq(split_whitespace(query, 1, <<>>), starts_with_marker))

\* the text with its backslashes removed, as the phrase extraction reads it
query_field_replaced(query) == replace_backslash(query)

\* ParsedQuery { query, .. }: the argument itself is moved into the result
query_field(query) == query

parse_query(query) ==
    [query |-> query_field(query),
     quote_words |-> some_unless_empty(non_empty(captures_iter(replace_backslash(query), 1))),
     negated_words |-> some_unless_empty(
         strip_prefixes(SelectSeq(split_whitespace(query, 1, <<>>), starts_with_marker)))]

InitParse ==
    /\ meta = EmptyFn
    /\ collisions = <<>>
    /\ qdrant = EmptyFn
    /\ bookmarks = {}
    /\ chunk_seq = 0
    /\ point_seq = 0
    /\ procs = [p \in Procs |-> Idle]
    /\ deviations = 0
    /\ last \in {[op |-> "parse_query", pc |-> "parse_query", query |-> q, parsed |-> None] :
                    q \in Queries}

ParseQuery ==
    /\ last.op = "parse_query"
    /\ last.pc = "parse_query"
    /\ last' = IF parse_query_panics(last.query)
               THEN [last EXCEPT !.pc = "panicked"]
               ELSE [last EXCEPT !.pc = "done", !.parsed = Some(parse_query(last.query))]
    /\ UNCHANGED <<meta, collisions, qdrant, bookmarks, chunk_seq, point_seq, procs, deviations>>

NextParse == ParseQuery

SpecParse == InitParse /\ [][NextParse]_vars

\* parse_query has returned
Parsed == last.op = "parse_query" /\ last.pc = "done"

\* the list an optional list stands for
ListOf(o) == IF o = None THEN <<>> ELSE o[1]

\* the k-th smallest element of a set of numbers
Nth(set, k) == CHOOSE i \in set : Cardinality({j \in set : j < i}) = k - 1

\* the substrings of t between its 1st and 2nd, 3rd and 4th, ... double quote
BetweenQuotePairs(t) ==
    LET quotes == {i \in 1..Len(t) : t[i] = "\""}
    IN [k \in 1..(Cardinality(quotes) \div 2) |->
           SubSeq(t, Nth(quotes, 2 * k - 1) + 1, Nth(quotes, 2 * k) - 1)]

\* C19: the phrase list parse_query returns is, in order, exactly the substrings
\* between successive pairs of double quotes of the input with its backslashes
\* removed; an unmatched quote contributes no phrase.
C19_PhrasesAreQuotedSubstrings ==
    Parsed =>
        ListOf(last.parsed[1].quote_words)
            = BetweenQuotePairs(SelectSeq(last.query, LAMBDA c : c # "\\"))

\* the whitespace-delimited tokens of s, as <<first, last>> positions
TokenSpans(s) ==
    {<<i, j>> \in (1..Len(s)) \X (1..Len(s)) :
        /\ i <= j
        /\ \A k \in i..j : s[k] \notin {" ", "\n"}
        /\ i = 1 \/ s[i - 1] \in {" ", "\n"}
        /\ j = Len(s) \/ s[j + 1] \in {" ", "\n"}}

\* the tokens of s that begin with the negation marker, in order, without it
NegatedTokens(s) ==
    LET spans == {sp \in TokenSpans(s) : s[sp[1]] = "-"}
        starts == {sp[1] : sp \in spans}
        span(k) == CHOOSE sp \in spans : sp[1] = Nth(starts, k)
    IN [k \in 1..Cardinality(spans) |-> SubSeq(s, span(k)[1] + 1, span(k)[2])]

\* C20: the negated list parse_query returns is, in order, exactly the
\* whitespace-delimited tokens of the input that begin with '-', each without
\* that one marker; no other token is included.
C20_NegatedAreMarkedTokens ==
    Parsed => ListOf(last.parsed[1].negated_words) = NegatedTokens(last.query)

\* a query with a token that is not negated and two different negated ones
C20_Witness ==
    /\ Parsed
    /\ Len(ListOf(last.parsed[1].negated_words)) = 2
    /\ last.parsed[1].negated_words[1][1] # last.parsed[1].negated_words[1][2]
    /\ Cardinality(TokenSpans(last.query)) = 3

\* C21: parse_query is total and keeps the raw text: for every input string the
\* call returns a ParsedQuery (it never panics), and the query field of the
\* result is the input string, character for character.
C21_TotalAndKeepsRawText ==
    /\ last.op = "parse_query" => last.pc \in {"parse_query", "done"}
    /\ Parsed => /\ is_some(last.parsed)
                 /\ last.parsed[1].query = last.query

\* a query with a backslash, a quoted phrase and a negated token came back whole
C21_Witness ==
    /\ Parsed
    /\ \E i \in 1..Len(last.query) : last.query[i] = "\\"
    /\ last.parsed[1].quote_words # None
    /\ last.parsed[1].negated_words # None
    /\ last.parsed[1].query = last.query

\* C22: an empty extraction is represented as absent: quote_words and
\* negated_words are each either absent or a non-empty list, never a present
\* empty list.
C22_EmptyExtractionIsAbsent ==
    Parsed => /\ last.parsed[1].quote_words # Some(<<>>)
              /\ last.parsed[1].negated_words # Some(<<>>)
              /\ (last.parsed[1].quote_words = None) =
                     (non_empty(captures_iter(replace_backslash(last.query), 1)) = <<>>)
              /\ (last.parsed[1].negated_words = None) =
                     (SelectSeq(split_whitespace(last.query, 1, <<>>), starts_with_marker) = <<>>)

\* a query holding an empty pair of quotes and no marked token: both lists absent
C22_Witness ==
    /\ Parsed
    /\ \E i \in 1..(Len(last.query) - 1) : last.query[i] = "\"" /\ last.query[i + 1] = "\""
    /\ last.parsed[1].quote_words = None
    /\ last.parsed[1].negated_words = None

\* ------------------------------------------------------ get_recommended_chunks

\* the points the positive chunks are searchable under
positive_points(S, positive_ids) ==
    {get_qdrant_id_from_chunk_id_query(S, c)[1] :
        c \in {d \in positive_ids : is_some(get_qdrant_id_from_chunk_id_query(S, d))}}

\* the neighbours of the positive set, the positive points among them
recommend_qdrant_query_with_positives(S, positive_ids) ==
    IF \E c \in positive_ids : get_qdrant_id_from_chunk_id_query(S, c) = None
    THEN [ok |-> FALSE, ids |-> {}]
    ELSE [ok |-> TRUE, ids |-> DOMAIN S.qdrant]

\* the index-native recommendation: every id is resolved to its point (an id
\* that resolves to none is an error), and the neighbours of the positive set
\* come back without the positive points themselves
recommend_qdrant_query(S, positive_ids) ==
    IF \E c \in positive_ids : get_qdrant_id_from_chunk_id_query(S, c) = None
    THEN [ok |-> FALSE, ids |-> {}]
    ELSE [ok |-> TRUE, ids |-> DOMAIN S.qdrant \ positive_points(S, positive_ids)]

\* Ok(HttpResponse::Ok().json(recommended_chunk_metadatas)), whatever was resolved
recommend_response(R) == Respond(R, "Ok", "")

\* the whole handler: the recommendation, then the rows of the recommended points
RecommendRun(S, req, failAt) ==
    LET R0 == [op |-> "get_recommended_chunks", pc |-> "recommend_qdrant_query",
               req |-> req, failAt |-> failAt, before |-> S, io |-> <<>>,
               recommended_qdrant_point_ids |-> {}, recommended_chunk_metadatas |-> {},
               resp |-> None]
        rec == recommend_qdrant_query(S, req.positive_chunk_ids)
        R1 == Called(R0)
    IN IF ~Succeeds(R0) \/ ~rec.ok
       THEN Respond(R1, "BadRequest", "Could not get recommended chunks")
       ELSE LET R2 == [R1 EXCEPT !.pc = "get_metadata_from_point_ids",
                                 !.recommended_qdrant_point_ids = rec.ids]
                R3 == Called(R2)
            IN IF ~Succeeds(R2)
               THEN Respond(R3, "BadRequest",
                            "Could not get recommended chunk_metadas from qdrant_point_ids")
               ELSE recommend_response(
                        [R3 EXCEPT !.recommended_chunk_metadatas =
                                       get_metadata_from_point_ids(S, rec.ids)])

RecommendInputs ==
    {<<[positive_chunk_ids |-> ids], f>> :
        ids \in SUBSET ChunkIds \ {{}},
        f \in {"none", "recommend_qdrant_query", "get_metadata_from_point_ids"}}

get_recommended_chunks ==
    /\ Quiet
    /\ \E in \in RecommendInputs : last' = RecommendRun(Stores, in[1], in[2])
    /\ UNCHANGED <<meta, collisions, qdrant, bookmarks, chunk_seq, point_seq, procs, deviations>>

NextRecommend ==
    \/ SeedCreate
    \/ SeedDelete
    \/ get_recommended_chunks
    \/ Receive

SpecRecommend == Init /\ [][NextRecommend]_vars

IsRecommend(L) == L.op = "get_recommended_chunks"

\* C23: for every non-empty set of positive chunk ids, the result of
\* get_recommended_chunks contains none of the positive chunks.
C23_PositivesNotRecommended ==
    (IsRecommend(last) /\ last.req.positive_chunk_ids # {}) =>
        \A row \in last.recommended_chunk_metadatas :
            row.id \notin last.req.positive_chunk_ids

\* a chunk that owns a point was the positive example and another chunk came back
C23_Witness ==
    /\ IsRecommend(last)
    /\ Status(last) = "Ok"
    /\ \E c \in last.req.positive_chunk_ids :
          c \in DOMAIN meta /\ is_some(meta[c].qdrant_point_id)
    /\ last.recommended_chunk_metadatas # {}
    /\ \A row \in last.recommended_chunk_metadatas :
          row.id \notin last.req.positive_chunk_ids

\* C24: when the index returns recommended point ids but no chunk row resolves
\* from them, get_recommended_chunks fails instead of returning a successful
\* empty result.
C24_NothingResolvedIsAnError ==
    (/\ IsRecommend(last)
     /\ ~CallFailed(last)
     /\ last.recommended_qdrant_point_ids # {}
     /\ get_metadata_from_point_ids(last.before, last.recommended_qdrant_point_ids) = {})
        => Status(last) # "Ok"

\* ------------------------------------------------------------- search_chunk

\* the most candidates an index matches
MaxCandidates == 21

\* "Each page is 10 chunks"
PageSize == 10

\* <<a + 1, ..., a + n>>
Range(a, n) == [i \in 1..n |-> a + i]

\* the page of a ranked list of candidates
page_slice(list, page) ==
    LET first == (page - 1) * PageSize + 1
        end == IF page * PageSize < Len(list) THEN page * PageSize ELSE Len(list)
    IN IF first > end THEN <<>> ELSE SubSeq(list, first, end)

\* the pages rounded down
total_pages_floor(total) == total \div PageSize

\* ceil(total / page size)
total_pages(total) == (total + PageSize - 1) \div PageSize

\* the fusion of a hybrid search: the re-ranker when cross_encoder is set to true
\* and, by default, when no weights are given; the weights apply only when
\* cross_encoder is not set to true
fusion_strategy(data) ==
    IF unwrap_or(data.cross_encoder, FALSE) THEN "cross_encoder"
    ELSE IF is_some(data.weights) THEN "weights"
    ELSE "cross_encoder"

\* the candidates of list that are not in seen
Unseen(list, seen) ==
    SelectSeq(list, LAMBDA c : \A i \in 1..Len(seen) : seen[i] # c)

\* one page of the nearest vectors
search_semantic_chunks(E, data, parsed_query, page) ==
    [score_chunks |-> page_slice(E.semantic, page),
     total_chunk_pages |-> total_pages(Len(E.semantic)),
     fusion |-> {}]

\* one page of the lexical matches
search_full_text_chunks(E, data, parsed_query, page) ==
    [score_chunks |-> page_slice(E.lexical, page),
     total_chunk_pages |-> total_pages(Len(E.lexical)),
     fusion |-> {}]

\* one page of both retrievals, combined and re-ranked by the one fusion
\* strategy of the request; the pages are those of the vector index
search_hybrid_chunks(E, data, parsed_query, page) ==
    LET semantic == page_slice(E.semantic, page)
        lexical == page_slice(E.lexical, page)
    IN [score_chunks |-> semantic \o Unseen(lexical, semantic),
        total_chunk_pages |-> total_pages(Len(E.semantic)),
        fusion |-> {fusion_strategy(data)}]

\* only "semantic" runs the semantic search; the lexical search is the fallback
search_dispatch_lexical_fallback(search_type) ==
    IF search_type = "semantic" THEN "search_semantic_chunks"
    ELSE IF search_type = "hybrid" THEN "search_hybrid_chunks"
    ELSE "search_full_text_chunks"

\* match data.search_type.as_str()
search_dispatch(search_type) ==
    IF search_type = "fulltext" THEN "search_full_text_chunks"
    ELSE IF search_type = "hybrid" THEN "search_hybrid_chunks"
    ELSE "search_semantic_chunks"

\* the whole handler: the query is parsed, one search runs, its body is returned
SearchRun(E, data, failAt) ==
    LET page == unwrap_or(data.page, 1)
        parsed_query == parse_query(data.query)
        fn == search_dispatch(data.search_type)
        H0 == [op |-> "search_chunk", pc |-> fn, req |-> data, env |-> E,
               failAt |-> failAt, io |-> <<>>, calls |-> <<>>,
               result_chunks |-> None, resp |-> None]
        H1 == [Called(H0) EXCEPT !.calls = <<[fn |-> fn, parsed_query |-> parsed_query,
                                              page |-> page]>>]
        result_chunks ==
            IF fn = "search_full_text_chunks"
            THEN search_full_text_chunks(E, data, parsed_query, page)
            ELSE IF fn = "search_hybrid_chunks"
            THEN search_hybrid_chunks(E, data, parsed_query, page)
            ELSE search_semantic_chunks(E, data, parsed_query, page)
    IN IF ~Succeeds(H0) THEN Respond(H1, "BadRequest", fn)
       ELSE Respond([H1 EXCEPT !.result_chunks = Some(result_chunks)], "Ok", "")

SearchTypes == {"fulltext", "hybrid", "semantic", "", "HYBRID"}

SearchQueries == {<<"a">>, <<"\"", "a", "\"", " ", "-", "a">>}

Totals == {0, PageSize - 1, PageSize, PageSize + 1, 2 * PageSize, MaxCandidates}

\* what the two indices match: the ranked candidates of each
SearchEnvs ==
    {[semantic |-> Range(0, n), lexical |-> Range(o, m)] :
        n \in Totals, m \in Totals, o \in {0, PageSize \div 2}}

SearchRequests ==
    [search_type : SearchTypes, query : SearchQueries, page : Opt({1, 2, 3}),
     cross_encoder : Opt(BOOLEAN), weights : Opt({<<1, 1>>})]

\* a request, and the call that fails if one does
SearchInputs ==
    {<<data, f>> \in SearchRequests \X {"none", "search_full_text_chunks",
                                        "search_hybrid_chunks", "search_semantic_chunks"} :
        f \in {"none", search_dispatch(data.search_type)}}

search_chunk ==
    /\ Quiet
    /\ \E E \in SearchEnvs : \E in \in SearchInputs : last' = SearchRun(E, in[1], in[2])
    /\ UNCHANGED <<meta, collisions, qdrant, bookmarks, chunk_seq, point_seq, procs, deviations>>

NextSearch ==
    \/ search_chunk
    \/ Receive

SpecSearch == Init /\ [][NextSearch]_vars

IsSearch(L) == L.op = "search_chunk"

Hybrid(L) == IsSearch(L) /\ L.req.search_type = "hybrid" /\ Status(L) = "Ok"

\* C25: in hybrid mode exactly one fusion strategy is applied per request: with
\* explicit weights the weighted combination (whatever the cross_encoder flag),
\* without weights the re-ranker.
C25_WeightsTakePrecedence ==
    Hybrid(last) =>
        /\ Cardinality(last.result_chunks[1].fusion) = 1
        /\ is_some(last.req.weights) => last.result_chunks[1].fusion = {"weights"}
        /\ ~is_some(last.req.weights) => last.result_chunks[1].fusion = {"cross_encoder"}

\* the candidates the reported pages are counted from
MatchedCandidates(L) ==
    IF L.req.search_type = "fulltext" THEN Len(L.env.lexical) ELSE Len(L.env.semantic)

\* n = ceil(total / PageSize)
IsCeil(n, total) == n * PageSize >= total /\ (n - 1) * PageSize < total

Searched(L) == IsSearch(L) /\ Status(L) = "Ok"

C30_DispatchOnSearchType ==
    IsSearch(last) =>
        /\ Len(last.calls) = 1
        /\ last.req.search_type = "fulltext" => last.calls[1].fn = "search_full_text_chunks"
        /\ last.req.search_type = "hybrid" => last.calls[1].fn = "search_hybrid_chunks"
        /\ last.req.search_type \notin {"fulltext", "hybrid"} =>
              last.calls[1].fn = "search_semantic_chunks"
        /\ last.calls[1].parsed_query.query = last.req.query
        /\ last.calls[1].parsed_query = parse_query(last.req.query)
        /\ last.calls[1].page = (IF last.req.page = None THEN 1 ELSE last.req.page[1])
        /\ ~CallFailed(last) => Status(last) = "Ok"

\* an empty search_type and no page: the semantic search ran for page 1
C30_Witness ==
    /\ Searched(last)
    /\ last.req.search_type = ""
    /\ last.req.page = None
    /\ last.calls = <<[fn |-> "search_semantic_chunks",
                       parsed_query |-> parse_query(last.req.query), page |-> 1]>>

\* ------------------------------------------- the descriptive fields of a row
\* Under SpecFields the requests vary in link, tag_set, metadata and weight, and
\* no call fails.

\* a create_chunk request with every descriptive field given
FullCreate ==
    [PlainCreate EXCEPT !.link = Some("l"), !.tag_set = Some("t"), !.metadata = Some("m"),
                        !.time_stamp = Some("2024-01-01T00:00:00"), !.weight = Some(2)]

\* the requests within MaxDeviations fields of plain, none of whose calls fails
FieldInputs(reqs, plain) ==
    {<<r, "none", Deviations(r, plain, "none")>> :
        r \in {x \in reqs : Deviations(x, plain, "none") <= MaxDeviations}}

FieldCreateInputs ==
    FieldInputs([chunk_html : {Some("a"), Some("b")}, link : Opt({"l"}),
                 tag_set : Opt({"t"}), metadata : Opt({"m"}), chunk_vector : {None},
                 tracking_id : Opt({"t1"}), time_stamp : Opt({"2024-01-01T00:00:00"}),
                 weight : Opt({2}), user : {"u1"}, server_configuration : {None},
                 plan : {None}, collection_id : {None}],
                FullCreate)

FieldUpdateInputs ==
    FieldInputs([chunk_uuid : ChunkIds, link : Opt({"k"}), chunk_html : Opt({"b"}),
                 metadata : Opt({"n"}), tracking_id : {None}, time_stamp : Opt({"not a date"}),
                 weight : Opt({3}), user : {"u1"}],
                [PlainUpdate EXCEPT !.weight = None])

FieldUpdateByTrackingIdInputs ==
    FieldInputs([tracking_id : {"t1"}, link : Opt({"k"}), chunk_html : Opt({"b"}),
                 metadata : Opt({"n"}), time_stamp : {None}, weight : Opt({3}),
                 user : {"u1"}],
                [link |-> None, chunk_html |-> None, metadata |-> None,
                 time_stamp |-> None, weight |-> None, user |-> "u1"])

FieldCreate ==
    /\ Quiet
    /\ chunk_seq < MaxChunks
    /\ \E in \in FieldCreateInputs :
         /\ Affordable(in)
         /\ \E pick \in global_unfiltered_top_match_query(Stores, RequestVector(in[1])) :
              Completed(Run(Stores, Enter("create_chunk", in, Stores), pick))
    /\ UNCHANGED procs

FieldUpdate ==
    /\ Quiet
    /\ \E in \in FieldUpdateInputs :
         /\ Affordable(in)
         /\ Completed(Run(Stores, Enter("update_chunk", in, Stores), NoPick))
    /\ UNCHANGED procs

FieldUpdateByTrackingId ==
    /\ Quiet
    /\ \E in \in FieldUpdateByTrackingIdInputs :
         /\ Affordable(in)
         /\ Completed(Run(Stores, Enter("update_chunk_by_tracking_id", in, Stores), NoPick))
    /\ UNCHANGED procs

NextFields ==
    \/ FieldCreate
    \/ FieldUpdate
    \/ FieldUpdateByTrackingId
    \/ Receive

SpecFields == Init /\ [][NextFields]_vars

\* the update L succeeded
UpdatedOk(L) == IsUpdate(L) /\ Status(L) = "NoContent"

\* the row of the chunk the update L is about, before the update and now
RowBefore(L) == L.before.meta[L.found[1].id]

RowNow(L) == meta[L.found[1].id]

\* C27: each of link, chunk_html, metadata and time_stamp that an update request
\* omits has the same stored value after a successful update as before it, and
\* tag_set is never changed by an update.
C27_OmittedFieldsUnchanged ==
    UpdatedOk(last) =>
        /\ last.req.link = None => RowNow(last).link = RowBefore(last).link
        /\ last.req.chunk_html = None => RowNow(last).chunk_html = RowBefore(last).chunk_html
        /\ last.req.metadata = None => RowNow(last).metadata = RowBefore(last).metadata
        /\ last.req.time_stamp = None => RowNow(last).time_stamp = RowBefore(last).time_stamp
        /\ RowNow(last).tag_set = RowBefore(last).tag_set

\* C28: if an update request provides no weight, the stored weight after a
\* successful update equals the weight before it.
C28_OmittedWeightUnchanged ==
    (UpdatedOk(last) /\ last.req.weight = None) =>
        RowNow(last).weight = RowBefore(last).weight

\* the weight create_chunk gives a chunk whose request has none
DefaultWeight == created_weight([weight |-> None])

\* C29: a chunk created with a caller-supplied weight w is persisted with weight
\* w, on the new-chunk path and on the duplicate path; a chunk created without a
\* weight gets the default neutral weight.
C29_CreatePersistsWeight ==
    (last.op = "create_chunk" /\ Status(last) = "Ok") =>
        /\ last.chunk_metadata[1].id \in DOMAIN meta
        /\ meta[last.chunk_metadata[1].id].weight = unwrap_or(last.req.weight, DefaultWeight)

\* ------------------------------------------------------ failed and refused requests

\* C31: a create_chunk that returns an error for any reason other than the
\* consistency fault leaves the metadata store and the vector index exactly as
\* they were before the request: no row without its point, no point's payload
\* modified.
C31_FailedCreateChangesNothing ==
    (/\ last # Idle
     /\ last.op = "create_chunk"
     /\ Status(last) # "Ok"
     /\ ~MatchedOrphan(last))
    => /\ meta = last.before.meta
       /\ collisions = last.before.collisions
       /\ qdrant = last.before.qdrant

\* request p is a create_chunk that collided with the point of the root that
\* request q, a delete_chunk, found; no call of either failed
CollidedWithDeleted(p, q) ==
    /\ Responded(p) /\ Responded(q)
    /\ procs[p].op = "create_chunk" /\ procs[q].op = "delete_chunk"
    /\ procs[p].failAt = "none" /\ procs[q].failAt = "none"
    /\ is_some(procs[p].collision)
    /\ is_some(procs[q].found)
    /\ procs[q].found[1].qdrant_point_id = procs[p].collision

\* the duplicate c is linked to a point that exists and that exactly one chunk owns
WellLinked(c) ==
    \E i \in 1..Len(collisions) :
        /\ collisions[i].chunk_id = c
        /\ collisions[i].collision_qdrant_id \in DOMAIN qdrant
        /\ Cardinality(OwnersOf(Stores, collisions[i].collision_qdrant_id)) = 1

\* C32: under any interleaving of a create_chunk that collides with root R and a
\* concurrent delete_chunk of R, once both have completed every duplicate chunk
\* is linked to a point that exists in the index and is owned by exactly one
\* chunk.
C32_NoDuplicateOnDeletedPoint ==
    \A p \in Procs : \A q \in Procs \ {p} :
        CollidedWithDeleted(p, q) =>
            \A c \in DOMAIN meta : meta[c].qdrant_point_id = None => WellLinked(c)

\* ------------------------------------------ concurrent creates under a plan
\* Under SpecQuota every request is a create_chunk in one dataset whose
\* organization has the plan QuotaPlan; no call fails.

QuotaPlan == [chunk_count |-> 1]

QuotaInputs ==
    {<<[PlainCreate EXCEPT !.chunk_html = Some(h), !.plan = Some(QuotaPlan)], "none", 0>> :
        h \in {"a", "b"}}

QuotaCreate(p) ==
    /\ chunk_seq + Cardinality({q \in Procs : InFlight(q)}) < MaxConcChunks
    /\ \E in \in QuotaInputs : Begin(p, "create_chunk", in)

NextQuota ==
    \/ \E p \in Procs : QuotaCreate(p)
    \/ \E p \in Procs : Await(p)
    \/ \E p \in Procs : ReceiveConc(p)

SpecQuota == Init /\ [][NextQuota]_vars

\* C33: under any interleaving of concurrent create_chunk requests in one
\* dataset, the number of chunk rows of the dataset never exceeds the plan's
\* chunk_count limit.
C33_RowsWithinPlan ==
    Cardinality(DOMAIN meta) <= QuotaPlan.chunk_count

\* ------------------------------------------------- the created-chunk response

\* the response of request L is a created chunk
Created(L) == L # Idle /\ L.op = "create_chunk" /\ Status(L) = "Ok"

\* point p did not exist when request L arrived, L issued the call that creates
\* a point under the id it generated, that id is p, and the point exists
CreatedBy(L, p) ==
    /\ p \notin DOMAIN L.before.qdrant
    /\ L.qdrant_point_id = Some(p)
    /\ \E i \in 1..Len(L.io) : L.io[i] = "create_new_qdrant_point_query"
    /\ p \in DOMAIN qdrant

\* C34: every successful create_chunk response has duplicate=true exactly when
\* the returned chunk has no vector_point_id, and duplicate=false exactly when
\* the returned chunk has a vector_point_id naming a point created by that same
\* request.
C34_DuplicateFlagMatchesPointId ==
    Created(last) =>
        LET p == last.chunk_metadata[1].qdrant_point_id
        IN /\ last.duplicate <=> p = None
           /\ ~last.duplicate <=> (is_some(p) /\ CreatedBy(last, p[1]))

\* a duplicate has been returned while the index already holds a point created
\* by an earlier request, whose chunk is still stored
C34_Witness ==
    /\ Created(last) /\ last.duplicate
    /\ last.chunk_metadata[1].qdrant_point_id = None
    /\ \E c \in DOMAIN meta : is_some(meta[c].qdrant_point_id)
                              /\ meta[c].qdrant_point_id[1] \in DOMAIN qdrant

\* ------------------------------------------------ requests on another's chunk

\* request L is an update or a delete that names no chunk of the dataset, or
\* names chunks none of which the requesting user wrote
Refused(L) ==
    /\ L # Idle /\ (IsUpdate(L) \/ IsDelete(L))
    /\ \A c \in Targets(L) : L.before.meta[c].author_id # L.req.user

ComputedEmbedding(L) ==
    \E i \in 1..Len(L.io) :
        L.io[i] \in {"create_embedding", "delete_chunk_metadata_query/create_embedding"}

\* C35: an update or delete request (by id or by tracking_id) from a user whose
\* id differs from the chunk's author_id, or naming a chunk that does not exist
\* in the request's dataset, fails with an error and leaves the metadata store
\* and the vector index unchanged, with no embedding computed.
C35_RefusedChangesNothing ==
    Refused(last) =>
        /\ Status(last) \notin {"Ok", "NoContent"}
        /\ meta = last.before.meta
        /\ collisions = last.before.collisions
        /\ qdrant = last.before.qdrant
        /\ ~ComputedEmbedding(last)

\* a user has been refused the delete of a root that another user wrote and
\* that has a duplicate
C35_Witness ==
    /\ Refused(last) /\ IsDelete(last) /\ Status(last) = "Forbidden"
    /\ \E c \in Targets(last) :
          /\ is_some(meta[c].qdrant_point_id)
          /\ \E i \in 1..Len(collisions) :
                collisions[i].collision_qdrant_id = meta[c].qdrant_point_id[1]

====
